---- MODULE Spec2Model ----
(***************************************************************************)
(* Model of the GPy kernel conformance driver                              *)
(* (GPy/testing/test_kernel.py: Kern_check_model and its adapters,         *)
(* check_kernel_gradient_functions) and of the latent initializer          *)
(* (GPy/util/initialization.py: initialize_latent).                        *)
(*                                                                         *)
(* The kernel, checkgrad and the PCA are external collaborators: the       *)
(* kernel's answer to a check is a nondeterministic response, a function   *)
(* of what the adapter hands to it.  Random draws are symbolic samples     *)
(* <<seed, pos>> of the global random stream; integer draws are concrete.  *)
(***************************************************************************)
EXTENDS Integers, Sequences, FiniteSets, TLC

VARIABLES
    debug,          \* Python's __debug__: assert statements are executed
    kern,           \* the kernel under test: input_dim, output_dim, theta
    argX, argX2,    \* the caller's X and X2 arguments (None or a matrix)
    output_ind,     \* the caller's output_ind argument
    fixed_X_dims,   \* the caller's fixed_X_dims argument
    verbose,        \* the caller's verbose argument
    X, X2,          \* the Driver's locals X and X2
    pass_checks,    \* the Driver's local pass_checks
    result,         \* the Driver's local result
    skipped,        \* the last result was set by an except NotImplementedError
    eig,            \* v.real of the last is_positive_semi_definite (None before)
    testmodel,      \* the Driver's local testmodel (None before check 5)
    pc,             \* position in check_kernel_gradient_functions
    k,              \* number of the check the Driver is at (1..10)
    ret,            \* how the call ended: "none" while it runs
    rng,            \* state of numpy's global random stream
    stream,         \* the integer draws made so far, by stream position
    log,            \* the PSD / checkgrad invocations of this call, in order
    calls,          \* how many times the caller calls the Driver
    call,           \* number of the running call
    memo,           \* the kernel's answers so far, by what it was asked
    first,          \* outcome of the first call (None until it ends)
    lpc,            \* position in initialize_latent
    init,           \* initialize_latent's init argument
    input_dim,      \* initialize_latent's input_dim argument
    Y,              \* initialize_latent's Y argument (its shape)
    Xr,             \* initialize_latent's base matrix
    var,            \* initialize_latent's variance vector
    pca,            \* the PCA object p built from Y
    warned,         \* the DeprecationWarnings emitted
    lret,           \* initialize_latent's return value (None until it returns)
    apc,            \* position in the life of one adapter object
    given,          \* the class to construct and the constructor's arguments
    obj,            \* the adapter object (None until it is constructed)
    heap,           \* the arrays in memory, by reference
    gradient,       \* the adapter's X.gradient buffer (None until it is set)
    XX,             \* the last call of a kernel gradient routine: gradients_XX
                    \* with the tensor it returned, or a diagonal routine
    tpc,            \* position in TestKernelPsiStatisticsGradient.test_kernels
    NMQ,            \* N, M and Q of setup
    w,              \* the weights w1, w2, w3, w3n (None before setup)
    ki,             \* index of the kernel test_kernels is at
    ci,             \* number of the check of that kernel test_kernels is at (1..6)
    tlog,           \* the gradient checks test_kernels has made, in order
    tret            \* how the test ended: "none" while it runs

drvVars == <<debug, kern, argX, argX2, output_ind, fixed_X_dims, verbose, X, X2,
             pass_checks, result, skipped, eig, testmodel, pc, k, ret, rng,
             stream, log, calls, call, memo, first>>
latVars == <<lpc, init, input_dim, Y, Xr, var, pca, warned, lret>>
adVars == <<apc, given, obj, heap, gradient, XX>>
psiVars == <<tpc, NMQ, w, ki, ci, tlog, tret>>
vars == <<drvVars, latVars, adVars, psiVars>>

----------------------------------------------------------------------------
(* Bounds of the model *)
MaxDim == 2         \* kern.input_dim ranges over 1..MaxDim
MaxOut == 1         \* kern.output_dim ranges over 1..MaxOut
MaxRows == 1        \* a caller-supplied X or X2 has 1..MaxRows rows

(* Optional values: Python's None and a present value *)
None == <<>>
Some(x) == <<x>>
Val(o) == o[1]

----------------------------------------------------------------------------
(* numpy's global random stream *)

\* The sample the stream yields in state r (np.random.randn / rand / normal).
Sample(r) == <<r.seed, r.pos>>

\* The stream after one draw.
Advance(r) == [r EXCEPT !.pos = @ + 1]

\* np.random.randint(low, high): the values a draw can take, low <= c < high.
randint(low, high) == low .. (high - 1)

\* np.random.randn(rows, cols)
randn(rows, cols, r) == [rows |-> rows, cols |-> cols, src |-> Sample(r), codes |-> None]

\* np.random.rand(rows, cols): uniform on [0, 1)
rand(rows, cols, r) == [rows |-> rows, cols |-> cols, src |-> Sample(r), nonneg |-> TRUE]

\* X[:, j] = c : a scalar broadcast into every row of column j
SetColumn(M, j, c) == [M EXCEPT !.codes = Some([col |-> j, vals |-> [i \in 1 .. M.rows |-> c]])]

\* Python's index i into an axis of length n
PyIndex(i, n) == IF i < 0 THEN i + n ELSE i

----------------------------------------------------------------------------
(* The kernel (external): its parameter vector and its answers *)

\* Parameter values as the caller left them before the first call.
CallerTheta == <<0, 0>>

\* GPy.kern.RBF(1), the kernel Kern_check_model falls back to.
RBF1 == [input_dim |-> 1, output_dim |-> 1, theta |-> CallerTheta]

\* A randomize that perturbs the current values instead of redrawing them.
randomizeAround(kernel, r) == [kernel EXCEPT !.theta = @ \o Sample(r)]

\* kernel.randomize(loc=1, scale=0.1): every parameter is redrawn around 1,
\* whatever its value was.
randomize(kernel, r) == [kernel EXCEPT !.theta = Sample(r)]

\* Real parts of eigenvalues, in units of 1e-10.
EigVals == {-2, -1, 0}

\* Number of eigenvalues of K(X) the model distinguishes.
EigN == 2

\* The spectra np.linalg.eig(kernel.K(X))[0].real can show.
Spectra == [1 .. EigN -> EigVals]

\* The tolerance -1e-10 of is_positive_semi_definite, in units of 1e-10.
EigTol == -1

\* What the kernel can answer to check c: it raises NotImplementedError, or
\* it yields a spectrum (check 1), or checkgrad finds its analytic gradient to
\* agree or to disagree with the numeric one (checks 2..10).
Responses(c) ==
    {[raise |-> TRUE, eig |-> <<>>, agree |-> FALSE]}
    \cup (IF c = 1
          THEN {[raise |-> FALSE, eig |-> s, agree |-> FALSE] : s \in Spectra}
          ELSE {[raise |-> FALSE, eig |-> <<>>, agree |-> b] : b \in BOOLEAN})

\* What the kernel is asked: the check, the adapter and the kernel parameters.
Query(c, rerun, model, kernel) ==
    [check |-> c, rerun |-> rerun, model |-> model, theta |-> kernel.theta]

\* The kernel is a function of what it is asked: an answer given before is
\* given again.
Answers(q, o) == o \in Responses(q.check) /\ (q \in DOMAIN memo => memo[q] = o)

\* The answers are kept while a later call can ask again.
Remember(q, o) == IF calls > call THEN memo @@ (q :> o) ELSE memo

----------------------------------------------------------------------------
(* Kern_check_model and the six adapters *)

\* Rows of the X an adapter draws when it is given none.
ModelXRows == 20

\* A base constructor that randomizes only the kernel it creates itself.
Kern_check_model_default(kernel, dL_dK, Xa, X2a, r) ==
    LET kernel1 == IF kernel = None THEN RBF1 ELSE Val(kernel)
        kernel2 == IF kernel = None THEN randomize(kernel1, r) ELSE kernel1
        r1 == Advance(r)
        X1 == IF Xa = None THEN randn(ModelXRows, kernel2.input_dim, r1) ELSE Val(Xa)
        r2 == IF Xa = None THEN Advance(r1) ELSE r1
        dL == IF dL_dK # None THEN Val(dL_dK)
              ELSE IF X2a = None THEN rand(X1.rows, X1.rows, r2)
              ELSE rand(X1.rows, Val(X2a).rows, r2)
        r3 == IF dL_dK = None THEN Advance(r2) ELSE r2
    IN  [model |-> [kind |-> "Kern_check_model", X |-> X1, X2 |-> X2a, dL_dK |-> dL,
                    free |-> "none", Xc |-> None, fixed |-> {}],
         kernel |-> kernel2, rng |-> r3]

Kern_check_model(kernel, dL_dK, Xa, X2a, r) ==
    LET kernel1 == IF kernel = None THEN RBF1 ELSE Val(kernel)
        kernel2 == randomize(kernel1, r)
        r1 == Advance(r)
        X1 == IF Xa = None THEN randn(ModelXRows, kernel2.input_dim, r1) ELSE Val(Xa)
        r2 == IF Xa = None THEN Advance(r1) ELSE r1
        dL == IF dL_dK # None THEN Val(dL_dK)
              ELSE IF X2a = None THEN rand(X1.rows, X1.rows, r2)
              ELSE rand(X1.rows, Val(X2a).rows, r2)
        r3 == IF dL_dK = None THEN Advance(r2) ELSE r2
    IN  [model |-> [kind |-> "Kern_check_model", X |-> X1, X2 |-> X2a, dL_dK |-> dL,
                    free |-> "none", Xc |-> None, fixed |-> {}],
         kernel |-> kernel2, rng |-> r3]

\* An eigenvalue test with a strict comparison.
is_positive_semi_definite_strict(v) == ~(\E i \in DOMAIN v : v[i] < EigTol)

\* The eigenvalue test of is_positive_semi_definite on the real parts v.
is_positive_semi_definite(v) == ~(\E i \in DOMAIN v : v[i] <= EigTol)

Kern_check_dK_dtheta(kernel, dL_dK, Xa, X2a, r) ==
    LET b == Kern_check_model(kernel, dL_dK, Xa, X2a, r)
    IN  [b EXCEPT !.model.kind = "Kern_check_dK_dtheta", !.model.free = "theta"]

Kern_check_dKdiag_dtheta(kernel, dL_dK, Xa, r) ==
    LET b == Kern_check_model(kernel, dL_dK, Xa, None, r)
    IN  [b EXCEPT !.model.kind = "Kern_check_dKdiag_dtheta", !.model.free = "theta"]

Kern_check_dK_dX(kernel, dL_dK, Xa, X2a, r) ==
    LET b == Kern_check_model(kernel, dL_dK, Xa, X2a, r)
    IN  [b EXCEPT !.model.kind = "Kern_check_dK_dX", !.model.free = "X"]

\* A diagonal adapter that hands the X2 it is given on to its parent.
Kern_check_dKdiag_dX_withX2(kernel, dL_dK, Xa, X2a, r) ==
    LET b == Kern_check_dK_dX(kernel, dL_dK, Xa, X2a, r)
    IN  [b EXCEPT !.model.kind = "Kern_check_dKdiag_dX"]

Kern_check_dKdiag_dX(kernel, dL_dK, Xa, X2a, r) ==
    LET b == Kern_check_dK_dX(kernel, dL_dK, Xa, None, r)
    IN  [b EXCEPT !.model.kind = "Kern_check_dKdiag_dX"]

Kern_check_d2K_dXdX(kernel, dL_dK, Xa, X2a, r) ==
    LET b == Kern_check_model(kernel, dL_dK, Xa, X2a, r)
    IN  [b EXCEPT !.model.kind = "Kern_check_d2K_dXdX", !.model.free = "X",
                  !.model.Xc = Xa]

Kern_check_d2Kdiag_dXdX(kernel, dL_dK, Xa, r) ==
    LET b == Kern_check_model(kernel, dL_dK, Xa, None, r)
    IN  [b EXCEPT !.model.kind = "Kern_check_d2Kdiag_dXdX", !.model.free = "X",
                  !.model.Xc = Xa]

\* testmodel.X[:, dims].fix(): the columns dims of the free X are held fixed.
fix(model, dims) ==
    [model EXCEPT !.fixed = {PyIndex(dims[i], model.X.cols) : i \in DOMAIN dims}]

\* The columns of X checkgrad perturbs and compares on an adapter.
Perturbed(model) ==
    IF model.free = "X" THEN (0 .. (model.X.cols - 1)) \ model.fixed ELSE {}

----------------------------------------------------------------------------
(* check_kernel_gradient_functions *)

\* Rows of the X and of the X2 the Driver generates.
DriverXRows == 10
DriverX2Rows == 20

\* Number of checks of the Driver.
NChecks == 10

\* A Driver whose last check has no try.
InTryShort(c) == c \in 3 .. (NChecks - 1)

\* Whether check c runs inside try / except NotImplementedError.
InTry(c) == c \in 3 .. NChecks

\* An except clause that counts the missing method as a failure.
OnNotImplementedFails(c) == FALSE

\* The result the except NotImplementedError clause of check c assigns.
OnNotImplemented(c) == TRUE

\* Whether check c fixes the columns fixed_X_dims before checkgrad.
FixesDims(c) == c \in 5 .. NChecks

\* Whether the failure branch of check c builds a new adapter for its verbose
\* re-run (otherwise it re-runs checkgrad on testmodel).
DiagFresh(c) == c \in {2, 3, 4, 7}

\* Whether the failure branch of check c sets pass_checks before its assert.
FlagBeforeAssert(c) == c \in {1, 2, 3, 4, 7}

\* A Driver that runs the second-derivative check on (X, X) before the one
\* on (X, X2).
AdapterSwapped(c, kernel, Xa, X2a, r) ==
    CASE c = 1 -> Kern_check_model(Some(kernel), None, Some(Xa), None, r)
      [] c = 2 -> Kern_check_dK_dtheta(Some(kernel), None, Some(Xa), None, r)
      [] c = 3 -> Kern_check_dK_dtheta(Some(kernel), None, Some(Xa), Some(X2a), r)
      [] c = 4 -> Kern_check_dKdiag_dtheta(Some(kernel), None, Some(Xa), r)
      [] c = 5 -> Kern_check_dK_dX(Some(kernel), None, Some(Xa), None, r)
      [] c = 6 -> Kern_check_dK_dX(Some(kernel), None, Some(Xa), Some(X2a), r)
      [] c = 7 -> Kern_check_dKdiag_dX(Some(kernel), None, Some(Xa), None, r)
      [] c = 8 -> Kern_check_d2K_dXdX(Some(kernel), None, Some(Xa), None, r)
      [] c = 9 -> Kern_check_d2K_dXdX(Some(kernel), None, Some(Xa), Some(X2a), r)
      [] OTHER -> Kern_check_d2Kdiag_dXdX(Some(kernel), None, Some(Xa), r)

\* A Driver whose check 9 passes X2 as check 8 does.
AdapterCross(c, kernel, Xa, X2a, r) ==
    CASE c = 1 -> Kern_check_model(Some(kernel), None, Some(Xa), None, r)
      [] c = 2 -> Kern_check_dK_dtheta(Some(kernel), None, Some(Xa), None, r)
      [] c = 3 -> Kern_check_dK_dtheta(Some(kernel), None, Some(Xa), Some(X2a), r)
      [] c = 4 -> Kern_check_dKdiag_dtheta(Some(kernel), None, Some(Xa), r)
      [] c = 5 -> Kern_check_dK_dX(Some(kernel), None, Some(Xa), None, r)
      [] c = 6 -> Kern_check_dK_dX(Some(kernel), None, Some(Xa), Some(X2a), r)
      [] c = 7 -> Kern_check_dKdiag_dX(Some(kernel), None, Some(Xa), None, r)
      [] c = 8 -> Kern_check_d2K_dXdX(Some(kernel), None, Some(Xa), Some(X2a), r)
      [] c = 9 -> Kern_check_d2K_dXdX(Some(kernel), None, Some(Xa), Some(X2a), r)
      [] OTHER -> Kern_check_d2Kdiag_dXdX(Some(kernel), None, Some(Xa), r)

\* The adapter check c constructs.
Adapter(c, kernel, Xa, X2a, r) ==
    CASE c = 1 -> Kern_check_model(Some(kernel), None, Some(Xa), None, r)
      [] c = 2 -> Kern_check_dK_dtheta(Some(kernel), None, Some(Xa), None, r)
      [] c = 3 -> Kern_check_dK_dtheta(Some(kernel), None, Some(Xa), Some(X2a), r)
      [] c = 4 -> Kern_check_dKdiag_dtheta(Some(kernel), None, Some(Xa), r)
      [] c = 5 -> Kern_check_dK_dX(Some(kernel), None, Some(Xa), None, r)
      [] c = 6 -> Kern_check_dK_dX(Some(kernel), None, Some(Xa), Some(X2a), r)
      [] c = 7 -> Kern_check_dKdiag_dX(Some(kernel), None, Some(Xa), None, r)
      [] c = 8 -> Kern_check_d2K_dXdX(Some(kernel), None, Some(Xa), Some(X2a), r)
      [] c = 9 -> Kern_check_d2K_dXdX(Some(kernel), None, Some(Xa), None, r)
      [] OTHER -> Kern_check_d2Kdiag_dXdX(Some(kernel), None, Some(Xa), r)

\* The adapter of check c as checkgrad gets it: built, then its columns fixed.
Prepared(c, kernel, Xa, X2a, dims, r) ==
    LET b == Adapter(c, kernel, Xa, X2a, r)
    IN  IF FixesDims(c) /\ dims # None
        THEN [b EXCEPT !.model = fix(b.model, Val(dims))]
        ELSE b

\* The adapter of the verbose re-run of check c.
Rerun(c, kernel, Xa, X2a, tm, r) ==
    IF DiagFresh(c)
    THEN Adapter(c, kernel, Xa, X2a, r)
    ELSE [model |-> Val(tm), kernel |-> kernel, rng |-> r]

\* A matrix the caller supplies (id tells X from X2).
Given(rows, cols, id) == [rows |-> rows, cols |-> cols, src |-> <<0, id>>, codes |-> None]

\* The Driver's X and X2 before they are bound.
Unbound == [rows |-> 0, cols |-> 0, src |-> <<0, 0>>, codes |-> None]

\* One invocation of is_positive_semi_definite or of checkgrad.
Invocation(c, model, verb, rerun) ==
    [check |-> c, kind |-> model.kind, hasX2 |-> model.X2 # None,
     rows |-> model.X.rows, fixed |-> model.fixed, perturbed |-> Perturbed(model),
     verbose |-> verb, rerun |-> rerun]

\* An integer draw at stream state r: a draw replayed from the same state
\* yields the same value.
Draws(r, c, low, high) ==
    c \in randint(low, high) /\ (r.pos \in DOMAIN stream => stream[r.pos] = c)

Drawn(r, c) == IF calls > call THEN stream @@ (r.pos :> c) ELSE stream

drvInputs == <<debug, argX, argX2, output_ind, fixed_X_dims, verbose, calls>>

\* Lines 185-189: pass_checks = True; X is generated when absent.
GenX ==
    /\ pc = "genX"
    /\ pass_checks' = TRUE
    /\ IF argX # None
       THEN /\ X' = Val(argX)
            /\ UNCHANGED <<rng, stream>>
       ELSE LET M == randn(DriverXRows, kern.input_dim, rng)
                r1 == Advance(rng)
            IN  IF output_ind = None
                THEN /\ X' = M
                     /\ rng' = r1
                     /\ UNCHANGED stream
                ELSE \E c \in randint(kern.output_dim, M.rows) :
                        /\ Draws(r1, c, kern.output_dim, M.rows)
                        /\ X' = SetColumn(M, Val(output_ind), c)
                        /\ rng' = Advance(r1)
                        /\ stream' = Drawn(r1, c)
    /\ pc' = "genX2"
    /\ UNCHANGED <<drvInputs, kern, X2, result, skipped, eig, testmodel, k, ret, log,
                   call, memo, first, latVars, adVars, psiVars>>

\* Lines 190-193: X2 is generated when absent.
GenX2 ==
    /\ pc = "genX2"
    /\ IF argX2 # None
       THEN /\ X2' = Val(argX2)
            /\ UNCHANGED <<rng, stream>>
       ELSE LET M == randn(DriverX2Rows, kern.input_dim, rng)
                r1 == Advance(rng)
            IN  IF output_ind = None
                THEN /\ X2' = M
                     /\ rng' = r1
                     /\ UNCHANGED stream
                ELSE \E c \in randint(kern.output_dim, M.rows) :
                        /\ Draws(r1, c, kern.output_dim, M.rows)
                        /\ X2' = SetColumn(M, Val(output_ind), c)
                        /\ rng' = Advance(r1)
                        /\ stream' = Drawn(r1, c)
    /\ pc' = "check"
    /\ UNCHANGED <<drvInputs, kern, X, pass_checks, result, skipped, eig, testmodel, k,
                   ret, log, call, memo, first, latVars, adVars, psiVars>>

\* Lines 195-199: check 1, the eigenvalues of K(X, X).
CheckPSD ==
    /\ pc = "check" /\ k = 1
    /\ LET b == Adapter(1, kern, X, X2, rng)
           q == Query(1, FALSE, b.model, b.kernel)
       IN  \E o \in Responses(1) :
              /\ Answers(q, o)
              /\ memo' = Remember(q, o)
              /\ kern' = b.kernel
              /\ rng' = b.rng
              /\ log' = Append(log, Invocation(1, b.model, verbose, FALSE))
              /\ IF o.raise
                 THEN /\ ret' = "NotImplementedError"
                      /\ pc' = "done"
                      /\ UNCHANGED <<result, k, eig>>
                 ELSE /\ result' = is_positive_semi_definite(o.eig)
                      /\ eig' = Some(o.eig)
                      /\ ret' = ret
                      /\ pc' = IF result' THEN "check" ELSE "failed"
                      /\ k' = IF result' THEN 2 ELSE 1
    /\ UNCHANGED <<drvInputs, X, X2, pass_checks, skipped, testmodel, stream, call,
                   first, latVars, adVars, psiVars>>

\* Lines 200-210: the PSD check failed.
FailPSD ==
    /\ pc = "failed" /\ k = 1
    /\ pass_checks' = FALSE
    /\ ret' = IF debug THEN "AssertionError" ELSE "False"
    /\ pc' = "done"
    /\ UNCHANGED <<drvInputs, kern, X, X2, result, skipped, eig, testmodel, k, rng, stream,
                   log, call, memo, first, latVars, adVars, psiVars>>

\* Lines 212-216: check 2, outside any try.
CheckTheta ==
    /\ pc = "check" /\ k = 2
    /\ LET b == Prepared(2, kern, X, X2, fixed_X_dims, rng)
           q == Query(2, FALSE, b.model, b.kernel)
       IN  \E o \in Responses(2) :
              /\ Answers(q, o)
              /\ memo' = Remember(q, o)
              /\ kern' = b.kernel
              /\ rng' = b.rng
              /\ log' = Append(log, Invocation(2, b.model, verbose, FALSE))
              /\ IF o.raise
                 THEN /\ ret' = "NotImplementedError"
                      /\ pc' = "done"
                      /\ UNCHANGED <<result, k>>
                 ELSE /\ result' = o.agree
                      /\ ret' = ret
                      /\ pc' = IF o.agree THEN "check" ELSE "failed"
                      /\ k' = IF o.agree THEN 3 ELSE 2
    /\ UNCHANGED <<drvInputs, X, X2, pass_checks, skipped, eig, testmodel, stream, call,
                   first, latVars, adVars, psiVars>>

\* The try blocks of checks 3..10 (lines 230-244, 258-267, 281-293, 307-319,
\* 333-345, 359-371, 385-397, 411-423).
CheckTry ==
    /\ pc = "check" /\ k \in 3 .. NChecks
    /\ LET b == Prepared(k, kern, X, X2, fixed_X_dims, rng)
           q == Query(k, FALSE, b.model, b.kernel)
       IN  \E o \in Responses(k) :
              /\ Answers(q, o)
              /\ memo' = Remember(q, o)
              /\ kern' = b.kernel
              /\ rng' = b.rng
              /\ testmodel' = IF FixesDims(k) THEN Some(b.model) ELSE testmodel
              /\ log' = Append(log, Invocation(k, b.model, verbose, FALSE))
              /\ IF o.raise /\ ~InTry(k)
                 THEN /\ ret' = "NotImplementedError"
                      /\ pc' = "done"
                      /\ UNCHANGED <<result, skipped, k>>
                 ELSE /\ result' = IF o.raise THEN OnNotImplemented(k) ELSE o.agree
                      /\ skipped' = o.raise
                      /\ ret' = ret
                      /\ pc' = IF result' THEN "check" ELSE "failed"
                      /\ k' = IF result' THEN k + 1 ELSE k
    /\ UNCHANGED <<drvInputs, X, X2, pass_checks, eig, stream, call, first, latVars, adVars, psiVars>>

\* The failure branches of checks 2..10 (lines 217-228, 245-256, 268-279,
\* 294-305, 320-331, 346-357, 372-383, 398-409, 424-435): the verbose re-run,
\* then assert result and return False.
Diagnose ==
    /\ pc = "failed" /\ k \in 2 .. NChecks
    /\ LET b == Rerun(k, kern, X, X2, testmodel, rng)
           q == Query(k, TRUE, b.model, b.kernel)
       IN  \E o \in Responses(k) :
              /\ Answers(q, o)
              /\ memo' = Remember(q, o)
              /\ kern' = b.kernel
              /\ rng' = b.rng
              /\ log' = Append(log, Invocation(k, b.model, TRUE, TRUE))
              /\ IF o.raise
                 THEN /\ ret' = "NotImplementedError"
                      /\ UNCHANGED pass_checks
                 ELSE /\ ret' = IF debug THEN "AssertionError" ELSE "False"
                      /\ pass_checks' = IF debug /\ ~FlagBeforeAssert(k)
                                        THEN pass_checks ELSE FALSE
    /\ pc' = "done"
    /\ UNCHANGED <<drvInputs, X, X2, result, skipped, eig, testmodel, k, stream, call,
                   first, latVars, adVars, psiVars>>

\* Line 437: return pass_checks.
Return ==
    /\ pc = "check" /\ k = NChecks + 1
    /\ ret' = IF pass_checks THEN "True" ELSE "False"
    /\ pc' = "done"
    /\ UNCHANGED <<drvInputs, kern, X, X2, pass_checks, result, skipped, eig, testmodel, k,
                   rng, stream, log, call, memo, first, latVars, adVars, psiVars>>

\* The caller calls the Driver again with the same kernel object, the same
\* arguments and the random stream seeded as before the first call.
CallAgain ==
    /\ pc = "done" /\ call < calls
    /\ first' = Some([ret |-> ret, check |-> k, log |-> log])
    /\ call' = call + 1
    /\ rng' = [rng EXCEPT !.pos = 0]
    /\ X' = Unbound /\ X2' = Unbound
    /\ pass_checks' = TRUE /\ result' = TRUE /\ skipped' = FALSE /\ eig' = None
    /\ testmodel' = None
    /\ pc' = "genX" /\ k' = 1 /\ ret' = "none" /\ log' = <<>>
    /\ UNCHANGED <<drvInputs, kern, stream, memo, latVars, adVars, psiVars>>

\* The values of fixed_X_dims the callers use: absent, -1 and [0].
FixedChoices == {None, Some(<<-1>>), Some(<<0>>)}

\* The state before a call: the caller's arguments and the build.  With
\* withInd the caller passes an output_ind, otherwise none.
Entry(n, dbgs, verbs, fixeds, absents, withInd) ==
    /\ debug \in dbgs
    /\ verbose \in verbs
    /\ \E d \in 1 .. MaxDim, m \in 1 .. MaxOut :
          /\ kern = [input_dim |-> d, output_dim |-> m, theta |-> CallerTheta]
          /\ argX \in absents \cup {Some(Given(r, d, 1)) : r \in 1 .. MaxRows}
          /\ argX2 \in absents \cup {Some(Given(r, d, 2)) : r \in 1 .. MaxRows}
          /\ output_ind \in IF withInd THEN {Some(j) : j \in 0 .. (d - 1)} ELSE {None}
    /\ fixed_X_dims \in fixeds
    /\ X = Unbound /\ X2 = Unbound
    /\ pass_checks = TRUE /\ result = TRUE /\ skipped = FALSE /\ eig = None
    /\ testmodel = None
    /\ pc = "genX" /\ k = 1 /\ ret = "none"
    /\ rng = [seed |-> 1, pos |-> 0]
    /\ stream = <<>> /\ log = <<>> /\ memo = <<>>
    /\ calls = n /\ call = 1 /\ first = None

\* initialize_latent is not running.
LatentIdle ==
    /\ lpc = "idle" /\ init = "random" /\ input_dim = 0
    /\ Y = [rows |-> 0, cols |-> 0]
    /\ Xr = <<>> /\ var = <<>> /\ pca = None /\ warned = <<>> /\ lret = None

\* No adapter object is under study.
AdapterIdle ==
    /\ apc = "idle" /\ given = None /\ obj = None /\ heap = <<>>
    /\ gradient = None /\ XX = None

\* test_kernels is not running.
PsiIdle ==
    /\ tpc = "idle" /\ NMQ = [N |-> 0, M |-> 0, Q |-> 0] /\ w = None
    /\ ki = 1 /\ ci = 1 /\ tlog = <<>> /\ tret = "none"

\* Every combination of arguments without output_ind; with output_ind, the
\* calls with verbose off and no fixed_X_dims.
Init ==
    /\ \/ Entry(1, BOOLEAN, BOOLEAN, FixedChoices, {None}, FALSE)
       \/ Entry(1, BOOLEAN, {FALSE}, {None}, {None}, TRUE)
    /\ LatentIdle
    /\ AdapterIdle
    /\ PsiIdle

Next ==
    \/ GenX
    \/ GenX2
    \/ CheckPSD
    \/ FailPSD
    \/ CheckTheta
    \/ CheckTry
    \/ Diagnose
    \/ Return

\* One call of check_kernel_gradient_functions.
Spec == Init /\ [][Next]_vars

\* The calls with verbose off, fixed_X_dims=-1, X and X2 supplied.
InitTwice ==
    /\ Entry(2, BOOLEAN, {FALSE}, {Some(<<-1>>)}, {}, FALSE)
    /\ LatentIdle /\ AdapterIdle /\ PsiIdle

NextTwice == Next \/ CallAgain

\* Two calls in a row on the same kernel object, with the same arguments and
\* the random stream reseeded in between.
SpecTwice == InitTwice /\ [][NextTwice]_vars

----------------------------------------------------------------------------
(* initialize_latent (GPy/util/initialization.py) *)

MaxN == 2           \* Y has 1..MaxN rows
MaxD == 2           \* Y has 1..MaxD columns
MaxQ == 2           \* input_dim ranges over 1..MaxQ

\* Floating-point values: a rational n/d (d > 0, lowest terms), an infinity
\* (n is its sign) or NaN.
RECURSIVE GCD(_, _)
GCD(a, b) == IF b = 0 THEN a ELSE GCD(b, a % b)

Abs(a) == IF a < 0 THEN -a ELSE a

NaN == [kind |-> "nan", n |-> 0, d |-> 1]

Inf(sign) == [kind |-> "inf", n |-> sign, d |-> 1]

Num(n, d) ==
    LET g == GCD(Abs(n), Abs(d))
        sg == IF d < 0 THEN -1 ELSE 1
    IN  [kind |-> "num", n |-> (sg * n) \div g, d |-> (sg * d) \div g]

Sign(a) == IF a.n > 0 THEN 1 ELSE IF a.n < 0 THEN -1 ELSE 0

\* a * b
Mul(a, b) ==
    IF a.kind = "nan" \/ b.kind = "nan" THEN NaN
    ELSE IF a.kind = "inf" \/ b.kind = "inf"
         THEN (IF Sign(a) * Sign(b) = 0 THEN NaN ELSE Inf(Sign(a) * Sign(b)))
    ELSE Num(a.n * b.n, a.d * b.d)

\* a / b as numpy divides: 0/0 is NaN, x/0 is an infinity.
Div(a, b) ==
    IF a.kind = "nan" \/ b.kind = "nan" THEN NaN
    ELSE IF b.kind = "inf" THEN (IF a.kind = "inf" THEN NaN ELSE Num(0, 1))
    ELSE IF a.kind = "inf" THEN Inf(IF b.n < 0 THEN -a.n ELSE a.n)
    ELSE IF b.n = 0 THEN (IF a.n = 0 THEN NaN ELSE Inf(Sign(a)))
    ELSE Num(a.n * b.d, a.d * b.n)

\* a < b on values that are no NaN
Less(a, b) ==
    IF a.kind = "inf" THEN a.n < 0 /\ ~(b.kind = "inf" /\ b.n < 0)
    ELSE IF b.kind = "inf" THEN b.n > 0
    ELSE a.n * b.d < b.n * a.d

\* v.max(): NaN as soon as an entry is NaN.
VecMax(v) ==
    IF \E i \in DOMAIN v : v[i].kind = "nan" THEN NaN
    ELSE CHOOSE m \in {v[i] : i \in DOMAIN v} : \A i \in DOMAIN v : ~Less(m, v[i])

\* v / x, entry by entry
VecDiv(v, x) == [i \in DOMAIN v |-> Div(v[i], x)]

\* c * v, entry by entry
VecScale(c, v) == [i \in DOMAIN v |-> Mul(c, v[i])]

\* v[:n]
Take(v, n) == SubSeq(v, 1, IF n < Len(v) THEN n ELSE Len(v))

Min(a, b) == IF a < b THEN a ELSE b

\* The values a standard-normal draw takes in the model.
SampleVals == {-1, 0, 1}

\* The rows x cols matrices of draws; two draws of a column differ (equal
\* draws of a continuous distribution have probability zero).
Matrices(rows, cols) ==
    {M \in [1 .. rows -> [1 .. cols -> SampleVals]] :
        \A j \in 1 .. cols : \A a, b \in 1 .. rows : a # b => M[a][j] # M[b][j]}

RECURSIVE ColSum(_, _, _)
\* Sum of column j of the first n rows of M.
ColSum(M, j, n) == IF n = 0 THEN 0 ELSE M[n][j] + ColSum(M, j, n - 1)

RECURSIVE ColSumSq(_, _, _)
ColSumSq(M, j, n) == IF n = 0 THEN 0 ELSE M[n][j] * M[n][j] + ColSumSq(M, j, n - 1)

Rows(M) == Len(M)

Cols(M) == IF Len(M) = 0 THEN 0 ELSE Len(M[1])

\* N^2 times the variance of column j of M.
Spread(M, j) == Rows(M) * ColSumSq(M, j, Rows(M)) - ColSum(M, j, Rows(M)) * ColSum(M, j, Rows(M))

\* The variance of every column taken after the matrix is centred and rescaled.
ColVarStandardized(M) ==
    [j \in 1 .. Cols(M) |-> IF Spread(M, j) = 0 THEN NaN ELSE Num(1, 1)]

\* M.var(0): the variance of every column (ddof = 0).
ColVar(M) == [j \in 1 .. Cols(M) |-> Num(Spread(M, j), Rows(M) * Rows(M))]

\* Xr -= Xr.mean(0); Xr /= Xr.std(0).  An entry (N x - S) / sqrt(N SS - S^2)
\* is kept as its numerator num and the radicand rad; 0/0 is NaN.
Standardized(M) ==
    [i \in 1 .. Rows(M) |-> [j \in 1 .. Cols(M) |->
        IF Spread(M, j) = 0
        THEN [kind |-> "nan", num |-> 0, rad |-> 0]
        ELSE [kind |-> "num", num |-> Rows(M) * M[i][j] - ColSum(M, j, Rows(M)),
              rad |-> Spread(M, j)]]]

\* Xr[:B.shape[0], :B.shape[1]] = B
Overwrite(M, B) ==
    [i \in 1 .. Rows(M) |-> [j \in 1 .. Cols(M) |->
        IF i <= Rows(B) /\ j <= Cols(B) THEN B[i][j] ELSE M[i][j]]]

\* The eigen-fractions PCA(Y).fracs can be: one per column of Y, descending,
\* summing to 1.
PCAFracs(Yshape) ==
    LET L == Yshape.cols
    IN  {[i \in 1 .. L |-> Num(1, L)],
         [i \in 1 .. L |-> IF i = 1 THEN Num(L + 1, 2 * L) ELSE Num(1, 2 * L)],
         [i \in 1 .. L |-> IF i = 1 THEN Num(1, 1) ELSE Num(0, 1)]}

\* What p.project(Y, q) and the empirical sample can be: an N x q matrix.
Blocks(rows, cols) ==
    {[i \in 1 .. rows |-> [j \in 1 .. cols |-> i]],
     [i \in 1 .. rows |-> [j \in 1 .. cols |-> j - i]]}

\* The values a draw of np.random.uniform(0.5, 1.5) takes in the model.
UniformVals == {Num(1, 2), Num(1, 1)}

\* Line 16: the base matrix is drawn.
LDraw ==
    /\ lpc = "draw"
    /\ Xr' \in Matrices(Y.rows, input_dim)
    /\ lpc' = "branch"
    /\ UNCHANGED <<init, input_dim, Y, var, pca, warned, lret, drvVars, adVars, psiVars>>

\* Lines 17-21: init == "PCA".
LBranchPCA ==
    /\ lpc = "branch" /\ init = "PCA"
    /\ \E fr \in PCAFracs(Y), PC \in Blocks(Y.rows, Min(input_dim, Y.cols)) :
          /\ pca' = Some([fracs |-> fr])
          /\ Xr' = Overwrite(Xr, PC)
          /\ var' = VecScale(Num(1, 10), Take(fr, input_dim))
    /\ lpc' = "standardize"
    /\ UNCHANGED <<init, input_dim, Y, warned, lret, drvVars, adVars, psiVars>>

\* Lines 22-42: init == "empirical_samples".
LBranchEmpirical ==
    /\ lpc = "branch" /\ init = "empirical_samples"
    /\ warned' = Append(warned, "DeprecationWarning")
    /\ \E EMP \in Blocks(Y.rows, Min(input_dim, Y.cols)) :
          Xr' = Overwrite(Xr, EMP)
    /\ var' \in [1 .. input_dim -> UniformVals]
    /\ lpc' = "standardize"
    /\ UNCHANGED <<init, input_dim, Y, pca, lret, drvVars, adVars, psiVars>>

\* Lines 43-44: init == "random".
LBranchRandom ==
    /\ lpc = "branch" /\ init = "random"
    /\ var' = ColVar(Xr)
    /\ lpc' = "standardize"
    /\ UNCHANGED <<init, input_dim, Y, Xr, pca, warned, lret, drvVars, adVars, psiVars>>

\* Lines 45-53: any other init.
LBranchOther ==
    /\ lpc = "branch" /\ init \notin {"PCA", "empirical_samples", "random"}
    /\ warned' = Append(warned, "DeprecationWarning")
    /\ var' = ColVar(Xr)
    /\ lpc' = "standardize"
    /\ UNCHANGED <<init, input_dim, Y, Xr, pca, lret, drvVars, adVars, psiVars>>

\* Lines 56-59: Xr is centred and scaled; Xr and var / var.max() are returned.
LReturn ==
    /\ lpc = "standardize"
    /\ Xr' = Standardized(Xr)
    /\ lret' = Some([Xr |-> Xr', var |-> VecDiv(var, VecMax(var))])
    /\ lpc' = "done"
    /\ UNCHANGED <<init, input_dim, Y, var, pca, warned, drvVars, adVars, psiVars>>

\* check_kernel_gradient_functions is not running.
DriverIdle ==
    /\ debug = TRUE /\ verbose = FALSE
    /\ kern = RBF1
    /\ argX = None /\ argX2 = None /\ output_ind = None /\ fixed_X_dims = None
    /\ X = Unbound /\ X2 = Unbound
    /\ pass_checks = TRUE /\ result = TRUE /\ skipped = FALSE /\ eig = None
    /\ testmodel = None
    /\ pc = "idle" /\ k = 1 /\ ret = "none"
    /\ rng = [seed |-> 1, pos |-> 0]
    /\ stream = <<>> /\ log = <<>> /\ memo = <<>>
    /\ calls = 1 /\ call = 1 /\ first = None

\* The init values: the two documented ones, the deprecated one, another one.
InitValues == {"PCA", "random", "empirical_samples", "spam"}

InitLatent ==
    /\ DriverIdle
    /\ AdapterIdle
    /\ PsiIdle
    /\ lpc = "draw"
    /\ init \in InitValues
    /\ input_dim \in 1 .. MaxQ
    /\ Y \in [rows : 1 .. MaxN, cols : 1 .. MaxD]
    /\ Xr = <<>> /\ var = <<>> /\ pca = None /\ warned = <<>> /\ lret = None

NextLatent ==
    \/ LDraw
    \/ LBranchPCA
    \/ LBranchEmpirical
    \/ LBranchRandom
    \/ LBranchOther
    \/ LReturn

\* One call of initialize_latent.
SpecLatent == InitLatent /\ [][NextLatent]_vars

----------------------------------------------------------------------------
(* One adapter object: its arrays, its objective and its X gradient *)

\* An array X or X2 an adapter is constructed on has 1..AdRows rows.
AdRows == MaxRows + 1

\* An array in memory: the matrix it was made as and the cells written since.
Array(M) == [of |-> M, moved |-> {}]

\* a.copy(): a new array with the contents of the array at ref.
copy(h, ref) == [heap |-> Append(h, h[ref]), ref |-> Len(h) + 1]

\* Param("X", a): the parameter is a view of the array a, or it holds a copy
\* of it (paramz decides by the dtype and the layout of a).
Param(h, ref) == {[heap |-> h, ref |-> ref], copy(h, ref)}

\* A second-derivative adapter whose Xc is the free X itself.
ArraysShared(cls, h, xr, x2r) ==
    CASE cls \in {"Kern_check_model", "Kern_check_dK_dtheta"} ->
            {[heap |-> h, X |-> xr, Xc |-> None, X2 |-> x2r]}
      [] cls = "Kern_check_dKdiag_dtheta" ->
            {[heap |-> h, X |-> xr, Xc |-> None, X2 |-> None]}
      [] cls = "Kern_check_dK_dX" ->
            {[heap |-> p.heap, X |-> p.ref, Xc |-> None, X2 |-> x2r] : p \in Param(h, xr)}
      [] cls = "Kern_check_dKdiag_dX" ->
            {[heap |-> p.heap, X |-> p.ref, Xc |-> None, X2 |-> None] : p \in Param(h, xr)}
      [] cls = "Kern_check_d2K_dXdX" ->
            {[heap |-> p.heap, X |-> p.ref, Xc |-> Some(p.ref), X2 |-> x2r] :
                p \in Param(copy(h, xr).heap, copy(h, xr).ref)}
      [] OTHER ->
            {[heap |-> p.heap, X |-> p.ref, Xc |-> Some(p.ref), X2 |-> None] :
                p \in Param(h, xr)}

\* The arrays self.X, self.Xc and self.X2 of a new adapter of class cls refer
\* to, constructed on the arrays at xr and x2r (lines 41-42, 98, 108-109,
\* 126-128, 152-154).
Arrays(cls, h, xr, x2r) ==
    CASE cls \in {"Kern_check_model", "Kern_check_dK_dtheta"} ->
            {[heap |-> h, X |-> xr, Xc |-> None, X2 |-> x2r]}
      [] cls = "Kern_check_dKdiag_dtheta" ->
            {[heap |-> h, X |-> xr, Xc |-> None, X2 |-> None]}
      [] cls = "Kern_check_dK_dX" ->
            {[heap |-> p.heap, X |-> p.ref, Xc |-> None, X2 |-> x2r] : p \in Param(h, xr)}
      [] cls = "Kern_check_dKdiag_dX" ->
            {[heap |-> p.heap, X |-> p.ref, Xc |-> None, X2 |-> None] : p \in Param(h, xr)}
      [] cls = "Kern_check_d2K_dXdX" ->
            {[heap |-> copy(p.heap, xr).heap, X |-> p.ref,
              Xc |-> Some(copy(p.heap, xr).ref), X2 |-> x2r] :
                p \in Param(copy(h, xr).heap, copy(h, xr).ref)}
      [] OTHER ->
            {[heap |-> copy(p.heap, xr).heap, X |-> p.ref,
              Xc |-> Some(copy(p.heap, xr).ref), X2 |-> None] :
                p \in Param(h, xr)}

\* cls(kernel, dL_dK, X, X2): the constructor of class cls.
Construct(cls, kernel, dL_dK, Xa, X2a, r) ==
    CASE cls = "Kern_check_model" -> Kern_check_model(kernel, dL_dK, Xa, X2a, r)
      [] cls = "Kern_check_dK_dtheta" -> Kern_check_dK_dtheta(kernel, dL_dK, Xa, X2a, r)
      [] cls = "Kern_check_dKdiag_dtheta" -> Kern_check_dKdiag_dtheta(kernel, dL_dK, Xa, r)
      [] cls = "Kern_check_dK_dX" -> Kern_check_dK_dX(kernel, dL_dK, Xa, X2a, r)
      [] cls = "Kern_check_dKdiag_dX" -> Kern_check_dKdiag_dX(kernel, dL_dK, Xa, X2a, r)
      [] cls = "Kern_check_d2K_dXdX" -> Kern_check_d2K_dXdX(kernel, dL_dK, Xa, X2a, r)
      [] OTHER -> Kern_check_d2Kdiag_dXdX(kernel, dL_dK, Xa, r)

(* Tensors: a shape and an entry for every index *)

RECURSIVE Indices(_)
\* The indices of a tensor of the given shape.
Indices(shape) ==
    IF shape = <<>> THEN {<<>>}
    ELSE {<<i>> \o s : i \in 1 .. Head(shape), s \in Indices(Tail(shape))}

Remove(s, p) == SubSeq(s, 1, p - 1) \o SubSeq(s, p + 1, Len(s))

Insert(s, p, v) == SubSeq(s, 1, p - 1) \o <<v>> \o SubSeq(s, p, Len(s))

RECURSIVE Total(_, _)
\* f[1] + ... + f[n]
Total(f, n) == IF n = 0 THEN 0 ELSE f[n] + Total(f, n - 1)

\* T.sum(axis): ndarray.sum over one axis (counted from 0).
sum(T, axis) ==
    LET p == axis + 1
        sh == Remove(T.shape, p)
    IN  [shape |-> sh,
         at |-> [idx \in Indices(sh) |->
                    Total([i \in 1 .. T.shape[p] |-> T.at[Insert(idx, p, i)]], T.shape[p])]]

\* -T
neg(T) == [shape |-> T.shape, at |-> [idx \in DOMAIN T.at |-> 0 - T.at[idx]]]

\* The tensor that is 1 at index p and 0 elsewhere.
OneHot(shape, p) ==
    [shape |-> shape, at |-> [idx \in Indices(shape) |-> IF idx = p THEN 1 ELSE 0]]

\* A tensor whose entries all differ.
Ramp(shape) ==
    [shape |-> shape,
     at |-> [idx \in Indices(shape) |->
                Total([i \in 1 .. Len(shape) |-> idx[i] * 10 ^ (i - 1)], Len(shape))]]

\* dL_dK.T
Transposed(dL) ==
    LET T == [dL EXCEPT !.rows = dL.cols, !.cols = dL.rows, !.src = <<"T", @>>]
    IN  IF "at" \in DOMAIN dL
        THEN [T EXCEPT !.at = [idx \in Indices(<<dL.cols, dL.rows>>) |->
                                  dL.at[<<idx[2], idx[1]>>]]]
        ELSE T

\* The second derivatives a kernel of the model can have: the tensor with one
\* entry 1 in a corner (the first or the last index along each axis) and 0
\* elsewhere, for each corner, and (<<>>) the tensor whose entries all differ.
SecondDerivatives == [1 .. 4 -> {"first", "last"}] \cup {<<>>}

\* kernel.gradients_XX(dL_dK, A, B): the tensor the kernel returns, with an
\* axis for the rows of A, one for the rows of B (of A when B is absent) and
\* two for the input dimensions.
gradients_XX(kernel, dL, A, B) ==
    LET sh == <<A.rows, IF B = None THEN A.rows ELSE Val(B).rows, A.cols, A.cols>>
    IN  IF kernel.d2 = <<>> THEN Ramp(sh)
        ELSE OneHot(sh, [i \in 1 .. 4 |-> IF kernel.d2[i] = "first" THEN 1 ELSE sh[i]])

\* A parameters_changed that reduces the last two axes in the other order.
gradsLast(X2a, T) ==
    IF X2a = None THEN neg(sum(sum(T, 1), 2)) ELSE neg(sum(sum(T, 0), 2))

\* Lines 138-143 of Kern_check_d2K_dXdX.parameters_changed: grads from the
\* tensor T gradients_XX returned.
grads(X2a, T) ==
    IF X2a = None THEN neg(sum(sum(T, 1), 1)) ELSE neg(sum(sum(T, 0), 1))

\* The contents of the array at ref.
At(h, ref) == h[ref]

\* The operands of the objective of the second-derivative adapter o
\* (Kern_check_d2K_dXdX.log_likelihood): gradients_X(dL_dK, first, second).
log_likelihood(o, h) ==
    [dL_dK |-> o.model.dL_dK, first |-> At(h, o.X),
     second |-> IF o.X2 = None THEN At(h, Val(o.Xc)) ELSE At(h, Val(o.X2))]

\* The classes of the diagonal adapters.
DiagonalAdapters ==
    {"Kern_check_dKdiag_dtheta", "Kern_check_dKdiag_dX", "Kern_check_d2Kdiag_dXdX"}

\* dL_dK[i, j]: the entry the caller wrote, or the entry of that place of the
\* random draw.
Cell(dL, i, j) == IF "at" \in DOMAIN dL THEN dL.at[<<i, j>>] ELSE <<dL.src, i, j>>

\* np.diag(dL_dK) of a matrix: the entries (i, i).
diag(dL) == [i \in 1 .. Min(dL.rows, dL.cols) |-> Cell(dL, i, i)]

\* A diagonal() that reads the first row.
diagonalFirstRow(dL) == [i \in 1 .. Min(dL.rows, dL.cols) |-> Cell(dL, 1, i)]

\* dL_dK.diagonal(): the entries (i, i).
diagonal(dL) == [i \in 1 .. Min(dL.rows, dL.cols) |-> Cell(dL, i, i)]

\* dL_dK[rows, cols] with two index lists: the entries (rows[n], cols[n]).
pick(dL, rows, cols) == [n \in 1 .. Len(rows) |-> Cell(dL, rows[n], cols[n])]

\* The operands of the objective of Kern_check_dKdiag_dtheta and of
\* Kern_check_dKdiag_dX: (np.diag(dL_dK) * kernel.Kdiag(X)).sum().
dKdiag_log_likelihood(o, h) ==
    [routine |-> "Kdiag", kernel |-> o.kernel, dL_dK |-> diag(o.model.dL_dK),
     X |-> At(h, o.X)]

\* The operands of the objective of Kern_check_d2Kdiag_dXdX: for each row i of
\* X, gradients_X(dL_dK[[i], [i]], X[[i]], Xc[[i]]).sum(), added up.
d2Kdiag_log_likelihood(o, h) ==
    [i \in 1 .. o.model.X.rows |->
        [routine |-> "gradients_X", kernel |-> o.kernel,
         dL_dK |-> pick(o.model.dL_dK, <<i>>, <<i>>),
         X |-> <<At(h, o.X), i>>, X2 |-> <<At(h, Val(o.Xc)), i>>]]

\* The objective of the diagonal adapter o.
diag_log_likelihood(o, h) ==
    IF o.model.kind = "Kern_check_d2Kdiag_dXdX"
    THEN d2Kdiag_log_likelihood(o, h) ELSE <<dKdiag_log_likelihood(o, h)>>

\* The call parameters_changed of the diagonal adapter o makes to the kernel:
\* the routine and the weights and the X it is given.
diag_parameters_changed(o, h) ==
    CASE o.model.kind = "Kern_check_dKdiag_dtheta" ->
            [routine |-> "update_gradients_diag", kernel |-> o.kernel,
             dL_dK |-> diag(o.model.dL_dK), X |-> At(h, o.X)]
      [] o.model.kind = "Kern_check_dKdiag_dX" ->
            [routine |-> "gradients_X_diag", kernel |-> o.kernel,
             dL_dK |-> diagonal(o.model.dL_dK), X |-> At(h, o.X)]
      [] o.model.kind = "Kern_check_d2Kdiag_dXdX" ->
            [routine |-> "gradients_XX_diag", kernel |-> o.kernel,
             dL_dK |-> diagonal(o.model.dL_dK), X |-> At(h, o.X)]

\* parameters_changed of the adapter o on the arrays h: the X gradient buffer
\* is set.  The second-derivative adapter asks the kernel for gradients_XX;
\* a diagonal adapter calls the diagonal routine of its class; the adapters
\* with a free X take what the kernel's gradient routine writes (not told
\* apart here).
parameters_changed(o, h) ==
    IF o.model.kind = "Kern_check_d2K_dXdX"
    THEN LET dL == IF o.X2 = None THEN o.model.dL_dK ELSE Transposed(o.model.dL_dK)
             A == IF o.X2 = None THEN o.X ELSE Val(o.X2)
             B == IF o.X2 = None THEN None ELSE Some(o.X)
             Bm == IF B = None THEN None ELSE Some(At(h, Val(B)).of)
             T == gradients_XX(o.kernel, dL, At(h, A).of, Bm)
         IN  /\ XX' = Some([dL_dK |-> dL, first |-> A, second |-> B, tensor |-> T])
             /\ gradient' = Some(grads(o.X2, T))
    ELSE /\ gradient' = IF o.model.free = "X"
                        THEN Some([shape |-> <<o.model.X.rows, o.model.X.cols>>,
                                   at |-> "kernel"])
                        ELSE None
         /\ XX' = IF o.model.kind \in DiagonalAdapters
                  THEN Some(diag_parameters_changed(o, h)) ELSE XX

\* The adapter is constructed: the constructor of its class, the arrays it
\* holds, and the first parameters_changed.
Build ==
    /\ apc = "new"
    /\ LET g == Val(given)
           Xa == IF g.X = None THEN None ELSE Some(At(heap, Val(g.X)).of)
           X2a == IF g.X2 = None THEN None ELSE Some(At(heap, Val(g.X2)).of)
           b == Construct(g.cls, g.kernel, g.dL_dK, Xa, X2a, g.rng)
           h0 == IF g.X = None THEN Append(heap, Array(b.model.X)) ELSE heap
           xr == IF g.X = None THEN Len(h0) ELSE Val(g.X)
       IN  \E a \in Arrays(g.cls, h0, xr, g.X2) :
              /\ heap' = a.heap
              /\ obj' = Some([model |-> b.model, kernel |-> b.kernel,
                              X |-> a.X, Xc |-> a.Xc, X2 |-> a.X2])
              /\ parameters_changed(obj'[1], heap')
    /\ apc' = "built"
    /\ UNCHANGED <<given, drvVars, latVars, psiVars>>

\* checkgrad writes a perturbed value into one cell of the free X.
Perturb ==
    /\ apc = "built" /\ Val(obj).model.free = "X"
    /\ At(heap, Val(obj).X).moved = {}
    /\ \E i \in 1 .. Val(obj).model.X.rows, j \in 1 .. Val(obj).model.X.cols :
          heap' = [heap EXCEPT ![Val(obj).X].moved = {<<i, j>>}]
    /\ parameters_changed(Val(obj), heap')
    /\ UNCHANGED <<apc, given, obj, drvVars, latVars, psiVars>>

\* checkgrad writes the value of the cell back.
Restore ==
    /\ apc = "built" /\ Val(obj).model.free = "X"
    /\ At(heap, Val(obj).X).moved # {}
    /\ heap' = [heap EXCEPT ![Val(obj).X].moved = {}]
    /\ parameters_changed(Val(obj), heap')
    /\ UNCHANGED <<apc, given, obj, drvVars, latVars, psiVars>>

\* A matrix the caller wrote: d times the row number on the diagonal, o times
\* a number of the place off it.
DLMatrix(rows, cols, d, o) ==
    [rows |-> rows, cols |-> cols, src |-> <<0, 3>>, nonneg |-> FALSE,
     at |-> [idx \in Indices(<<rows, cols>>) |->
                IF idx[1] = idx[2] THEN d * idx[1] ELSE o * (10 * idx[1] + idx[2])]]

\* The matrices of a shape a caller can supply as dL_dK.
DLMatrices(rows, cols) == {DLMatrix(rows, cols, d, o) : d \in {1, -1}, o \in {1, -1}}

\* A dL_dK the caller supplies: entries of either sign.
GivenDL(rows, cols) == DLMatrix(rows, cols, 1, -1)

AdapterClasses ==
    {"Kern_check_model", "Kern_check_dK_dtheta", "Kern_check_dKdiag_dtheta",
     "Kern_check_dK_dX", "Kern_check_dKdiag_dX", "Kern_check_d2K_dXdX",
     "Kern_check_d2Kdiag_dXdX"}

\* The classes whose constructor takes an X2.
TakesX2 == AdapterClasses \ {"Kern_check_dKdiag_dtheta", "Kern_check_d2Kdiag_dXdX"}

\* The classes that wrap their X argument in a Param: they are constructed
\* with an X.
WrapsX == {"Kern_check_dK_dX", "Kern_check_dKdiag_dX", "Kern_check_d2K_dXdX",
           "Kern_check_d2Kdiag_dXdX"}

\* The caller holds an array X (reference 1) and an array X2 (reference 2) and
\* constructs one adapter: X is passed or left out, X2 is left out, is the
\* array X2 or is the very array X; dL_dK is left out or supplied (one of
\* DLMatrices to a diagonal adapter).  The
\* kernel of a second-derivative adapter has one of SecondDerivatives.
InitAdapter ==
    /\ DriverIdle /\ LatentIdle /\ PsiIdle
    /\ apc = "new" /\ obj = None /\ gradient = None /\ XX = None
    /\ \E n \in 1 .. AdRows, m \in 1 .. AdRows, d \in 1 .. MaxDim :
          /\ heap = <<Array(Given(n, d, 1)), Array(Given(m, d, 2))>>
          /\ \E c \in AdapterClasses :
             \E x \in IF c \in WrapsX THEN {Some(1)} ELSE {None, Some(1)} :
             \E x2 \in IF c \in TakesX2 THEN {None, Some(1), Some(2)} ELSE {None} :
             \E dl \in LET rows == IF x = None THEN ModelXRows ELSE n
                            cols == IF x2 = None \/ c = "Kern_check_dKdiag_dX"
                                    THEN rows ELSE heap[Val(x2)].of.rows
                        IN  {None} \cup
                            (IF c \in DiagonalAdapters
                             THEN {Some(D) : D \in DLMatrices(rows, cols)}
                             ELSE {Some(GivenDL(rows, cols))}) :
             \E t \in IF c = "Kern_check_d2K_dXdX" THEN SecondDerivatives ELSE {<<>>} :
                given = Some([cls |-> c, X |-> x, X2 |-> x2, dL_dK |-> dl,
                              kernel |-> Some([input_dim |-> d, output_dim |-> 1,
                                               theta |-> CallerTheta, d2 |-> t]),
                              rng |-> [seed |-> 1, pos |-> 0]])

NextAdapter ==
    \/ Build
    \/ Perturb
    \/ Restore

\* The life of one adapter object under checkgrad.
SpecAdapter == InitAdapter /\ [][NextAdapter]_vars

----------------------------------------------------------------------------
(* TestKernelPsiStatisticsGradient: setup and test_kernels *)

\* setup has N, M, Q = 100, 20, 3; here N ranges over 1..MaxN, M over 1..MaxM
\* and Q over 1..MaxDim.
MaxM == 2

\* np.swapaxes(T, a, b) left out: the tensor as it is.
swapaxesNone(T, a, b) == T

\* np.swapaxes(T, a, b): the axes a and b (counted from 0) change places.
swapaxes(T, a, b) ==
    LET Swap(s) == [i \in 1 .. Len(s) |->
                       IF i = a + 1 THEN s[b + 1] ELSE IF i = b + 1 THEN s[a + 1] ELSE s[i]]
    IN  [shape |-> Swap(T.shape),
         at |-> [idx \in Indices(Swap(T.shape)) |-> T.at[Swap(idx)]]]

\* T + U, entry by entry, for tensors of one shape.
add(T, U) == [shape |-> T.shape, at |-> [idx \in DOMAIN T.at |-> T.at[idx] + U.at[idx]]]

\* The values np.random.randn(shape) takes in the model.
randnTensors(shape) == {OneHot(shape, p) : p \in Indices(shape)} \cup {Ramp(shape)}

\* The kernels of test_kernels, in the order of the list.
Kernels ==
    <<"RBF", "Linear", "MLP", "RBF+Linear+Bias+White", "RBF+Bias+White",
      "Linear+Bias+White">>

\* The six calls of the loop body: the function called and its psi2n.
Passes ==
    <<[target |-> "kernel_param", psi2n |-> FALSE],
      [target |-> "Z", psi2n |-> FALSE],
      [target |-> "qX", psi2n |-> FALSE],
      [target |-> "kernel_param", psi2n |-> TRUE],
      [target |-> "Z", psi2n |-> TRUE],
      [target |-> "qX", psi2n |-> TRUE]>>

\* The closure f of _test_kernel_param, _test_Z and _test_qX: where it writes
\* its argument p, the inducing points it evaluates at, the psi2 it calls
\* and the weights it contracts psi0, psi1 and psi2 with.
f(target, psi2n) ==
    [writes |-> CASE target = "kernel_param" -> "kernel.param_array"
                  [] target = "Z" -> "none"
                  [] OTHER -> "qX.param_array",
     Z |-> IF target = "Z" THEN "p" ELSE "self.Z",
     psi2 |-> IF ~psi2n THEN "psi2" ELSE "psi2n",
     weights |-> <<"w1", "w2", IF ~psi2n THEN "w3" ELSE "w3n">>]

\* A df that always hands the aggregate weight w3 to the kernel.
dfAggregate(target, psi2n) ==
    [writes |-> CASE target = "kernel_param" -> "kernel.param_array"
                  [] target = "Z" -> "none"
                  [] OTHER -> "qX.param_array",
     Z |-> IF target = "Z" THEN "p" ELSE "self.Z",
     method |-> CASE target = "kernel_param" -> "update_gradients_expectations"
                  [] target = "Z" -> "gradients_Z_expectations"
                  [] OTHER -> "gradients_qX_expectations",
     weights |-> <<"w1", "w2", "w3">>]

\* The closure df of _test_kernel_param, _test_Z and _test_qX: the kernel
\* method it calls and the weights it hands to it.
df(target, psi2n) ==
    [writes |-> CASE target = "kernel_param" -> "kernel.param_array"
                  [] target = "Z" -> "none"
                  [] OTHER -> "qX.param_array",
     Z |-> IF target = "Z" THEN "p" ELSE "self.Z",
     method |-> CASE target = "kernel_param" -> "update_gradients_expectations"
                  [] target = "Z" -> "gradients_Z_expectations"
                  [] OTHER -> "gradients_qX_expectations",
     weights |-> <<"w1", "w2", IF ~psi2n THEN "w3" ELSE "w3n">>]

\* GradientChecker(f, df, x0) of the call number c of the loop body on
\* kernel number i, and what its checkgrad says.
PsiCheck(i, c, agree) ==
    [kernel |-> i, target |-> Passes[c].target, psi2n |-> Passes[c].psi2n,
     f |-> f(Passes[c].target, Passes[c].psi2n),
     df |-> df(Passes[c].target, Passes[c].psi2n),
     x0 |-> CASE Passes[c].target = "kernel_param" -> "kernel.param_array.copy()"
              [] Passes[c].target = "Z" -> "self.Z.copy()"
              [] OTHER -> "self.qX.param_array.copy()",
     agree |-> agree]

\* Lines 948-962: the data and the weights are drawn; w3n is made symmetric.
setup ==
    /\ tpc = "setup"
    /\ \E w3n \in randnTensors(<<NMQ.N, NMQ.M, NMQ.M>>) :
          w' = Some([Z |-> <<NMQ.M, NMQ.Q>>,
                     w1 |-> Ramp(<<NMQ.N>>),
                     w2 |-> Ramp(<<NMQ.N, NMQ.M>>),
                     w3 |-> Ramp(<<NMQ.M, NMQ.M>>),
                     w3n |-> add(w3n, swapaxes(w3n, 1, 2))])
    /\ tpc' = "for"
    /\ UNCHANGED <<NMQ, ki, ci, tlog, tret, drvVars, latVars, adVars>>

\* Lines 979-980: the next kernel of the list is randomized; after the last
\* one the test has passed.
NextKernel ==
    /\ tpc = "for"
    /\ IF ki <= Len(Kernels)
       THEN /\ tpc' = "body" /\ ci' = 1
            /\ UNCHANGED tret
       ELSE /\ tpc' = "done" /\ tret' = "passed"
            /\ UNCHANGED ci
    /\ UNCHANGED <<NMQ, w, ki, tlog, drvVars, latVars, adVars>>

\* What follows a gradient check: the kernel raised, or the assert failed, or
\* the next call of the loop body.
AfterCheck(raised, agree) ==
    IF raised
    THEN /\ tret' = "NotImplementedError" /\ tpc' = "done"
         /\ UNCHANGED <<ki, ci>>
    ELSE IF debug /\ ~agree
    THEN /\ tret' = "AssertionError" /\ tpc' = "done"
         /\ UNCHANGED <<ki, ci>>
    ELSE /\ tret' = tret
         /\ IF ci < Len(Passes)
            THEN /\ ci' = ci + 1 /\ UNCHANGED <<tpc, ki>>
            ELSE /\ ki' = ki + 1 /\ tpc' = "for" /\ UNCHANGED ci

\* _test_kernel_param (lines 988-1018): m.checkgrad(verbose=1), then
\* assert m.checkgrad().
test_kernel_param ==
    /\ tpc = "body" /\ Passes[ci].target = "kernel_param"
    /\ \E raised1, raised2, agree \in BOOLEAN :
          /\ tlog' = Append(tlog, PsiCheck(ki, ci, agree /\ ~raised1 /\ ~raised2))
          /\ AfterCheck(raised1 \/ raised2, agree)
    /\ UNCHANGED <<NMQ, w, drvVars, latVars, adVars>>

\* _test_Z (lines 1020-1048): assert m.checkgrad().
test_Z ==
    /\ tpc = "body" /\ Passes[ci].target = "Z"
    /\ \E raised, agree \in BOOLEAN :
          /\ tlog' = Append(tlog, PsiCheck(ki, ci, agree /\ ~raised))
          /\ AfterCheck(raised, agree)
    /\ UNCHANGED <<NMQ, w, drvVars, latVars, adVars>>

\* _test_qX (lines 1050-1083): assert m.checkgrad().
test_qX ==
    /\ tpc = "body" /\ Passes[ci].target = "qX"
    /\ \E raised, agree \in BOOLEAN :
          /\ tlog' = Append(tlog, PsiCheck(ki, ci, agree /\ ~raised))
          /\ AfterCheck(raised, agree)
    /\ UNCHANGED <<NMQ, w, drvVars, latVars, adVars>>

\* test_kernels is about to run; the test suite runs with assert statements
\* executed (debug, as DriverIdle has it).
InitPsi ==
    /\ DriverIdle /\ LatentIdle /\ AdapterIdle
    /\ tpc = "setup"
    /\ NMQ \in [N : 1 .. MaxN, M : 1 .. MaxM, Q : 1 .. MaxDim]
    /\ w = None /\ ki = 1 /\ ci = 1 /\ tlog = <<>> /\ tret = "none"

NextPsi ==
    \/ setup
    \/ NextKernel
    \/ test_kernel_param
    \/ test_Z
    \/ test_qX

\* One run of TestKernelPsiStatisticsGradient.test_kernels.
SpecPsi == InitPsi /\ [][NextPsi]_vars

----------------------------------------------------------------------------
(* Properties of check_kernel_gradient_functions *)

Last(q) == q[Len(q)]

\* The call has ended on a failed check.
FailedCheck == pc = "done" /\ ~result

\* C1: when a check fails (the PSD test or a checkgrad returns false) the call
\* returns the boolean False; no AssertionError leaves the Driver.
C1_FailedCheckReturnsFalse == FailedCheck => ret = "False"

\* C2: a NotImplementedError raised in one of the checks 3..10 counts as a pass
\* of that check: the Driver goes on to the next check, and a call whose checks
\* all passed or were skipped returns True.
C2_SkipCountsAsPass ==
    /\ [][(Len(log') > Len(log) /\ ~Last(log').rerun /\ skipped')
            => (/\ k \in 3 .. NChecks
                /\ result' /\ ret' = "none" /\ pc' = "check" /\ k' = k + 1)]_vars
    /\ []((pc = "done" /\ k = NChecks + 1) => ret = "True")

\* A call that returned True although its last check was skipped.
C2_Witness == ret = "True" /\ skipped /\ Len(log) = NChecks

C4_Order ==
    <<[kind |-> "Kern_check_model", hasX2 |-> FALSE],
      [kind |-> "Kern_check_dK_dtheta", hasX2 |-> FALSE],
      [kind |-> "Kern_check_dK_dtheta", hasX2 |-> TRUE],
      [kind |-> "Kern_check_dKdiag_dtheta", hasX2 |-> FALSE],
      [kind |-> "Kern_check_dK_dX", hasX2 |-> FALSE],
      [kind |-> "Kern_check_dK_dX", hasX2 |-> TRUE],
      [kind |-> "Kern_check_dKdiag_dX", hasX2 |-> FALSE],
      [kind |-> "Kern_check_d2K_dXdX", hasX2 |-> TRUE],
      [kind |-> "Kern_check_d2K_dXdX", hasX2 |-> FALSE],
      [kind |-> "Kern_check_d2Kdiag_dXdX", hasX2 |-> FALSE]>>

\* The checks started so far (verbose re-runs left out).
Started(l) == SelectSeq(l, LAMBDA e : ~e.rerun)

\* C4: the checks run in the fixed order 1..10; check c is started only when
\* every check before it passed or was skipped, and after a failing check no
\* later check is started.
C4_FixedOrderShortCircuit ==
    /\ [](\A i \in DOMAIN Started(log) :
             /\ Started(log)[i].check = i
             /\ Started(log)[i].kind = C4_Order[i].kind
             /\ Started(log)[i].hasX2 = C4_Order[i].hasX2)
    /\ [][Started(log') # Started(log)
            => (/\ Started(log') = Append(Started(log), Last(log'))
                /\ result /\ ret = "none"
                /\ Len(log) = Len(Started(log)))]_vars
    /\ [][(~result \/ ret # "none") => Started(log') = Started(log)]_vars

\* All ten checks were started, the last one failed and was re-run.
C4_Witness == Len(Started(log)) = NChecks /\ ~result /\ pc = "done"

\* The state right after the PSD test: result is its verdict on eig.
AfterPSD == eig # None /\ Len(log) = 1

FixedCols(cols) == {PyIndex(Val(fixed_X_dims)[i], cols) : i \in DOMAIN Val(fixed_X_dims)}

\* C6: with fixed_X_dims given, every checkgrad of the location checks 5..10
\* runs on an adapter whose columns fixed_X_dims are fixed: it perturbs none of
\* them, and it perturbs and compares every other column.
C6_FixedColumnsNeverPerturbed ==
    fixed_X_dims # None =>
        \A i \in DOMAIN log :
            log[i].check >= 5 =>
                log[i].perturbed = (0 .. (kern.input_dim - 1)) \ FixedCols(kern.input_dim)

\* Whether M is as the Driver generates it for an absent argument arg: rows
\* rows, kern.input_dim columns, and with output_ind given a column
\* output_ind of codes c, 0 <= c < kern.output_dim.
C7_Generated(arg, M, rows) ==
    arg = None =>
        /\ M.rows = rows /\ M.cols = kern.input_dim
        /\ output_ind # None =>
              /\ M.codes # None
              /\ Val(M.codes).col = Val(output_ind)
              /\ \A i \in 1 .. M.rows : Val(M.codes).vals[i] \in 0 .. (kern.output_dim - 1)

\* C7: an absent X is replaced by a 10-row X and an absent X2 by a 20-row X2
\* with kern.input_dim columns, and with output_ind given every entry of
\* column output_ind of a generated matrix is a code c, 0 <= c < kern.output_dim.
C7_GeneratedData ==
    pc \in {"check", "failed", "done"} =>
        /\ C7_Generated(argX, X, DriverXRows)
        /\ C7_Generated(argX2, X2, DriverX2Rows)

C13_RerunSameConfiguration ==
    (FailedCheck /\ k \in 2 .. NChecks) =>
        LET n == Len(log) IN
        /\ n >= 2
        /\ {i \in DOMAIN log : log[i].rerun} = {n}
        /\ log[n].verbose
        /\ log[n].check = k /\ log[n - 1].check = k
        /\ log[n].kind = log[n - 1].kind
        /\ log[n].hasX2 = log[n - 1].hasX2
        /\ log[n].rows = log[n - 1].rows
        /\ log[n].fixed = log[n - 1].fixed

\* C17: every adapter construction redraws the parameters of the kernel it
\* is given, in place, with randomize(loc=1, scale=0.1): each check, and each
\* verbose re-run that builds a new adapter, runs at parameters drawn for it,
\* never at the ones of the check before nor at the ones the caller had set.
C17_RandomizedPerConstruction ==
    [][(Len(log') > Len(log) /\ (Last(log').rerun => DiagFresh(Last(log').check))) =>
          /\ kern'.theta = Sample(rng)
          /\ kern'.theta # kern.theta
          /\ kern'.theta # CallerTheta]_vars

\* Check 7 failed and its re-run built a new adapter: the eighth construction
\* of the call.
C17_Witness ==
    /\ pc = "done" /\ Len(log) = 8 /\ Last(log).rerun /\ Last(log).check = 7
    /\ kern.theta # CallerTheta

\* C20: the checks 3, 6 and 8 run on an adapter with an X2, the checks 1, 2,
\* 4, 5, 7, 9 and 10 (and their re-runs) on an adapter without, whatever the
\* caller passed; an X2 the caller left out is a generated one of 20 rows.
C20_CrossChecksHaveX2 ==
    /\ \A i \in DOMAIN log : log[i].hasX2 <=> log[i].check \in {3, 6, 8}
    /\ (pc \in {"check", "failed", "done"} /\ argX2 = None) =>
          (X2.rows = DriverX2Rows /\ X2.cols = kern.input_dim /\ X2.src # Given(0, 0, 2).src)

\* All ten checks have run on a generated X2.
C20_Witness == argX2 = None /\ Len(Started(log)) = NChecks /\ ret = "True"

----------------------------------------------------------------------------
(* Properties of initialize_latent *)

\* C9: for every init and every Y the returned variance vector has maximum
\* entry exactly 1, also when the variance before the normalization is zero
\* in every entry.
C9_VarMaxIsOne == lret # None => VecMax(Val(lret).var) = Num(1, 1)

\* C10: for every init, Xr has shape (N, input_dim), N the rows of Y, and the
\* variance vector has length exactly input_dim, in PCA mode also when
\* input_dim exceeds the number of columns of Y.
C10_Shapes ==
    lret # None =>
        /\ Rows(Val(lret).Xr) = Y.rows
        /\ Cols(Val(lret).Xr) = input_dim
        /\ Len(Val(lret).var) = input_dim

\* C11: for every init other than "PCA" and "random", the deprecated
\* "empirical_samples" included, initialize_latent emits a DeprecationWarning
\* and computes the variance by the "random" policy: the variance is the
\* column-wise variance of the base matrix.
C11_FallbackToRandomPolicy ==
    (lpc = "standardize" /\ init \notin {"PCA", "random"}) =>
        /\ warned = <<"DeprecationWarning">>
        /\ var = ColVar(Xr)

\* The variance vector v divided by its largest entry.
Normalized(v) == VecDiv(v, VecMax(v))

\* C12: for init = "random" the returned variance is the column-wise variance
\* of the base matrix as drawn (the branch leaves the matrix as it was drawn),
\* taken before the matrix is centred and rescaled, divided by its maximum;
\* it is a function of the draw alone, not of Y nor of the standardized Xr.
C12_VarianceOfTheDraw ==
    /\ [][(init = "random" /\ lpc = "branch") => Xr' = Xr]_vars
    /\ [][(init = "random" /\ lpc = "standardize" /\ lret' # None) =>
            Val(lret').var =
                Normalized([j \in 1 .. input_dim |->
                               Num(Spread(Xr, j), Y.rows * Y.rows)])]_vars

\* A random-mode call returned a variance whose two entries differ: the
\* columns of the draw had different variances.
C12_Witness ==
    /\ init = "random" /\ lret # None /\ input_dim = 2
    /\ Val(lret).var[1] # Val(lret).var[2]
    /\ Val(lret).var[1].kind = "num" /\ Val(lret).var[2].kind = "num"

----------------------------------------------------------------------------
(* Properties of the adapters *)

\* The adapter object is of class cls.
IsA(cls) == obj # None /\ Val(obj).model.kind = cls

\* C14: in Kern_check_d2K_dXdX with X2 absent the objective compares the free
\* X against Xc, a private copy of the original X (an array no other name
\* refers to, holding X as it was passed); a write to the free X leaves Xc
\* unchanged and, with X2 present, leaves X2 unchanged.
C14_PrivateCopy ==
    /\ [](IsA("Kern_check_d2K_dXdX") =>
            LET o == Val(obj) IN
            /\ Val(o.Xc) \notin {o.X, 1, 2}
            /\ At(heap, Val(o.Xc)) = Array(o.model.X)
            /\ o.X2 = None =>
                  /\ log_likelihood(o, heap).first = At(heap, o.X)
                  /\ log_likelihood(o, heap).second = At(heap, Val(o.Xc)))
    /\ [][(IsA("Kern_check_d2K_dXdX") /\ At(heap', Val(obj).X) # At(heap, Val(obj).X)) =>
            LET o == Val(obj) IN
            /\ At(heap', Val(o.Xc)) = At(heap, Val(o.Xc))
            /\ o.X2 # None => At(heap', Val(o.X2)) = At(heap, Val(o.X2))]_vars

\* checkgrad has perturbed a cell of the free X of a Kern_check_d2K_dXdX
\* without X2, and Xc holds the original X.
C14_Witness ==
    /\ IsA("Kern_check_d2K_dXdX") /\ Val(obj).X2 = None
    /\ At(heap, Val(obj).X).moved # {}
    /\ At(heap, Val(Val(obj).Xc)).moved = {}

\* T.sum(axis=(a, b)), a < b: the entries of T added up over the axes a and b.
sumAxes(T, a, b) ==
    LET sh == Remove(Remove(T.shape, b + 1), a + 1)
    IN  [shape |-> sh,
         at |-> [idx \in Indices(sh) |->
                    Total([i \in 1 .. T.shape[a + 1] |->
                              Total([j \in 1 .. T.shape[b + 1] |->
                                        T.at[Insert(Insert(idx, a + 1, i), b + 1, j)]],
                                    T.shape[b + 1])],
                          T.shape[a + 1])]]

\* C15: Kern_check_d2K_dXdX.parameters_changed sets the X gradient to
\* -gradients_XX(dL_dK, X) summed over the axes (1, 2) when X2 is absent and to
\* -gradients_XX(dL_dK.T, X2, X) summed over the axes (0, 2) when X2 is
\* present: the chained sums of the code equal these sums; the gradient has
\* the shape of X.
C15_GradientReduction ==
    IsA("Kern_check_d2K_dXdX") =>
        LET o == Val(obj)
            c == Val(XX)
        IN  /\ XX # None /\ gradient # None
            /\ IF o.X2 = None
               THEN /\ c.dL_dK = o.model.dL_dK
                    /\ c.first = o.X /\ c.second = None
                    /\ Val(gradient) = neg(sumAxes(c.tensor, 1, 2))
               ELSE /\ c.dL_dK = Transposed(o.model.dL_dK)
                    /\ c.first = Val(o.X2) /\ c.second = Some(o.X)
                    /\ Val(gradient) = neg(sumAxes(c.tensor, 0, 2))
            /\ Val(gradient).shape = <<o.model.X.rows, o.model.X.cols>>

\* The gradient was set from a tensor whose entries all differ, returned for
\* an X2 with another number of rows than X and two input dimensions.
C15_Witness ==
    /\ IsA("Kern_check_d2K_dXdX") /\ gradient # None /\ XX # None
    /\ Val(obj).X2 = Some(2)
    /\ At(heap, 2).of.rows # Val(obj).model.X.rows
    /\ Val(obj).model.X.cols = 2
    /\ Val(obj).kernel.d2 = <<>>

\* C16: an adapter constructed without a dL_dK holds a dL_dK of nonnegative
\* entries with as many rows as X and as many columns as its X2 has rows, as
\* X has rows when it has no X2; a diagonal adapter has no X2, whatever was
\* passed, and holds a square dL_dK of side |X|.
C16_DefaultdLdK ==
    (obj # None /\ Val(given).dL_dK = None) =>
        LET o == Val(obj)
            dL == o.model.dL_dK
        IN  /\ dL.nonneg
            /\ dL.rows = o.model.X.rows
            /\ dL.cols = IF o.X2 # None THEN At(heap, Val(o.X2)).of.rows
                         ELSE o.model.X.rows
            /\ o.model.kind \in DiagonalAdapters =>
                  /\ o.X2 = None /\ o.model.X2 = None
                  /\ dL.rows = o.model.X.rows /\ dL.cols = o.model.X.rows

\* A Kern_check_dKdiag_dX constructed without dL_dK and with an X2 of another
\* number of rows than X.
C16_Witness ==
    /\ IsA("Kern_check_dKdiag_dX") /\ Val(given).dL_dK = None
    /\ Val(given).X2 = Some(2)
    /\ At(heap, 2).of.rows # Val(obj).model.X.rows

----------------------------------------------------------------------------
(* Properties of TestKernelPsiStatisticsGradient *)

\* C18: test_kernels takes the kernels in the order of the list and each one
\* through six gradient checks: hyperparameters, Z, qX with psi2, then
\* hyperparameters, Z, qX with psi2n.  In each check f and df use the same
\* third weight, w3 with psi2 and w3n with psi2n.  A check whose checkgrad
\* disagrees is the last one: the test fails there; the test passes only
\* after all the checks of all the kernels.
C18_SixChecksPerKernel ==
    /\ \A i \in DOMAIN tlog :
          LET e == tlog[i]
              c == ((i - 1) % 6) + 1
          IN  /\ e.kernel = ((i - 1) \div 6) + 1
              /\ e.target = <<"kernel_param", "Z", "qX", "kernel_param", "Z", "qX">>[c]
              /\ e.psi2n = (c > 3)
              /\ e.f.psi2 = IF e.psi2n THEN "psi2n" ELSE "psi2"
              /\ e.f.weights[3] = IF e.psi2n THEN "w3n" ELSE "w3"
              /\ e.df.weights[3] = e.f.weights[3]
              /\ ~e.agree => (i = Len(tlog) /\ tret \in {"AssertionError", "NotImplementedError"})
    /\ tret = "AssertionError" => ~Last(tlog).agree
    /\ tret = "passed" => Len(tlog) = 6 * Len(Kernels)

\* The last check of the last kernel (qX with psi2n) disagreed and the test
\* failed.
C18_Witness ==
    /\ tret = "AssertionError" /\ Len(tlog) = 6 * Len(Kernels)
    /\ Last(tlog).target = "qX" /\ Last(tlog).psi2n

\* C19: after setup w3n has shape (N, M, M) and w3n[n][i][j] = w3n[n][j][i]
\* for all n, i, j; w1, w2 and w3 have the shapes (N,), (N, M) and (M, M).
C19_WeightShapes ==
    w # None =>
        LET W == Val(w) IN
        /\ W.w3n.shape = <<NMQ.N, NMQ.M, NMQ.M>>
        /\ DOMAIN W.w3n.at = Indices(<<NMQ.N, NMQ.M, NMQ.M>>)
        /\ \A n \in 1 .. NMQ.N : \A i, j \in 1 .. NMQ.M :
              W.w3n.at[<<n, i, j>>] = W.w3n.at[<<n, j, i>>]
        /\ W.w1.shape = <<NMQ.N>>
        /\ W.w2.shape = <<NMQ.N, NMQ.M>>
        /\ W.w3.shape = <<NMQ.M, NMQ.M>>

\* A w3n with a nonzero entry off the diagonal of its last two axes, next to
\* a w3 that is not symmetric.
C19_Witness ==
    /\ w # None /\ NMQ.N >= 2 /\ NMQ.M >= 2
    /\ Val(w).w3n.at[<<2, 1, 2>>] # 0
    /\ Val(w).w3.at[<<1, 2>>] # Val(w).w3.at[<<2, 1>>]

\* The adapter of the state is a diagonal adapter constructed with the dL_dK
\* the caller supplied.
DiagonalGiven ==
    /\ obj # None /\ Val(obj).model.kind \in DiagonalAdapters
    /\ Val(given).dL_dK # None

\* The matrices a caller can supply that have the diagonal of dL and differ
\* from it off the diagonal.
SameDiagonal(dL) ==
    {D \in DLMatrices(dL.rows, dL.cols) :
        /\ \A i \in 1 .. Min(dL.rows, dL.cols) : D.at[<<i, i>>] = dL.at[<<i, i>>]
        /\ \E i \in 1 .. dL.rows, j \in 1 .. dL.cols :
              i # j /\ D.at[<<i, j>>] # dL.at[<<i, j>>]}

\* The adapter constructed as the adapter of the state was, on the same
\* arrays, with the dL_dK D.
Twin(D) ==
    LET g == Val(given)
        Xa == IF g.X = None THEN None ELSE Some(At(heap, Val(g.X)).of)
        X2a == IF g.X2 = None THEN None ELSE Some(At(heap, Val(g.X2)).of)
        b == Construct(g.cls, g.kernel, Some(D), Xa, X2a, g.rng)
    IN  [Val(obj) EXCEPT !.model = b.model, !.kernel = b.kernel]

\* C21: a diagonal adapter and the adapter constructed with the same kernel
\* and X and a dL_dK of the same diagonal and other off-diagonal entries have
\* the same objective (the same operands go to the kernel) and hand the same
\* weights to the kernel's diagonal gradient routine; the call the adapter
\* made is that call.
C21_DiagonalOnly ==
    DiagonalGiven =>
        /\ XX = Some(diag_parameters_changed(Val(obj), heap))
        /\ \A D \in SameDiagonal(Val(obj).model.dL_dK) :
              /\ Twin(D).model.dL_dK = D
              /\ Twin(D).kernel = Val(obj).kernel
              /\ diag_log_likelihood(Twin(D), heap) = diag_log_likelihood(Val(obj), heap)
              /\ diag_parameters_changed(Twin(D), heap)
                    = diag_parameters_changed(Val(obj), heap)

\* A Kern_check_d2Kdiag_dXdX on an X of two rows or more, constructed with a
\* dL_dK, has called gradients_XX_diag after a cell of X was perturbed;
\* another dL_dK has the same diagonal and other entries off it.
C21_Witness ==
    /\ DiagonalGiven /\ IsA("Kern_check_d2Kdiag_dXdX")
    /\ Val(obj).model.X.rows >= 2
    /\ At(heap, Val(obj).X).moved # {}
    /\ XX # None /\ Val(XX).routine = "gradients_XX_diag"
    /\ SameDiagonal(Val(obj).model.dL_dK) # {}

====
